---- MODULE Spec2Model ----
(***************************************************************************)
(* Provenance clause translation (ast2ram/ProvenanceClauseTranslator.cpp)  *)
(* and the union type node (ast/UnionType.h) of Souffle.                   *)
(*                                                                         *)
(* Assertions are modelled as compiled in: a failed assert ends the call   *)
(* with status "assert" and no tree.                                       *)
(***************************************************************************)
EXTENDS Integers, Sequences, FiniteSets, TLC

(***************************************************************************)
(* Bounds of the model.                                                    *)
(***************************************************************************)
MaxArity == 3
MaxBody == 2
MaxAux == 2
MaxTypes == 2
MaxObjects == 2

(***************************************************************************)
(* AST: arguments, atoms, literals, clauses.                               *)
(***************************************************************************)
Names == {"r", "s", "t"}

\* declared arity of each relation of the program under translation
DeclaredArity == [nm \in Names |-> IF nm = "r" THEN MaxArity ELSE IF nm = "s" THEN 1 ELSE 0]

Num(c) == [kind |-> "num", id |-> c]
Var(v) == [kind |-> "var", id |-> v]
Agg(g) == [kind |-> "agg", id |-> g]
NoArg == [kind |-> "none", id |-> 0]

Atom(nm, as) == [name |-> nm, args |-> as]
NoAtom == [name |-> "", args |-> <<>>]

PosLit(a) == [lit |-> "atom", atom |-> a, lhs |-> NoArg, rhs |-> NoArg]
NegLit(a) == [lit |-> "neg", atom |-> a, lhs |-> NoArg, rhs |-> NoArg]
BinLit(l, r) == [lit |-> "bin", atom |-> NoAtom, lhs |-> l, rhs |-> r]

VarArgs(n) == [i \in 1..n |-> Var(i)]
NumArgs(n) == [i \in 1..n |-> Num(i)]

\* Atom::getArity
getArity(atom) == Len(atom.args)

(***************************************************************************)
(* Sequence helpers.                                                       *)
(***************************************************************************)
RECURSIVE Flatten(_)
Flatten(ss) == IF ss = <<>> THEN <<>> ELSE Head(ss) \o Flatten(Tail(ss))

SeqMap(Op(_), s) == [i \in 1..Len(s) |-> Op(s[i])]

SeqsUpTo(S, n) == UNION {[1..k -> S] : k \in 0..n}

(***************************************************************************)
(* RAM expressions and operation nodes.  An operation tree is a chain      *)
(* (every node but the leaf nests exactly one operation), kept as the      *)
(* sequence of its nodes from the outermost to the innermost.              *)
(***************************************************************************)
SignedConstant(c) == [e |-> "SignedConstant", a |-> c, b |-> 0]
TupleElement(level, col) == [e |-> "TupleElement", a |-> level, b |-> col]
UndefValue == [e |-> "UndefValue", a |-> 0, b |-> 0]
Unbound == [e |-> "Unbound", a |-> 0, b |-> 0]

\* level: the tuple level a scan or aggregate introduces, -1 for the other nodes
Node(kind, cond, rel, level, values) ==
    [node |-> kind, cond |-> cond, rel |-> rel, level |-> level, values |-> values]

SubroutineReturn(values) == <<Node("SubroutineReturn", "", "", -1, values)>>
Insert(rel, values) == <<Node("Insert", "", rel, -1, values)>>
Filter(cond, rel, values, op) == <<Node("Filter", cond, rel, -1, values)>> \o op

Query(op) == [stmt |-> "Query", op |-> op]
NoStatement == [stmt |-> "none", op |-> <<>>]

\* outcome of a translator call: status "ok", "assert" (failed assertion) or
\* "out_of_range" (std::vector::at threw); lowered is the sequence of
\* arguments handed to ValueTranslator::translate, in call order
Outcome(status, op, lowered) == [status |-> status, op |-> op, lowered |-> lowered]

(***************************************************************************)
(* Collaborators of the translator: clause utilities, relation naming,     *)
(* the value index and value lowering.                                     *)
(***************************************************************************)
isFact(clause) == clause.body = <<>>
isRule(clause) == ~isFact(clause)

getConcreteRelationName(nm) == nm
getDeltaRelationName(nm) == "@delta_" \o nm

\* TranslatorContext::getEvaluationArity: the auxiliary arity of the atom's relation
getEvaluationArity(ctx, atom) == ctx[atom.name]

IsPositive(l) == l.lit = "atom"
IsNegation(l) == l.lit = "neg"
IsBinary(l) == l.lit = "bin"

PositiveAtoms(clause) == SeqMap(LAMBDA l : l.atom, SelectSeq(clause.body, IsPositive))
NegatedAtoms(clause) == SeqMap(LAMBDA l : l.atom, SelectSeq(clause.body, IsNegation))
BinaryConstraints(clause) == SelectSeq(clause.body, IsBinary)

\* the references of one scanned atom: its variable arguments with their location
AtomRefs(atom, level) ==
    LET cols == SelectSeq([i \in 1..Len(atom.args) |-> i], LAMBDA i : atom.args[i].kind = "var")
    IN  [j \in 1..Len(cols) |-> [var |-> atom.args[cols[j]].id, level |-> level, col |-> cols[j] - 1]]

\* the generators (aggregates) of the clause, in body order
Generators(clause) ==
    SeqMap(LAMBDA l : l.rhs.id, SelectSeq(clause.body, LAMBDA l : l.lit = "bin" /\ l.rhs.kind = "agg"))

NullIndex == [state |-> "null", refs |-> <<>>, gens |-> <<>>, base |-> 0]

\* valueIndex = mk<ValueIndex>(); indexClause(clause, version): every positive atom
\* gets the next scan level, every generator a level after the atoms
indexClause(clause, version) ==
    LET atoms == PositiveAtoms(clause)
    IN  [state |-> "live",
         refs |-> Flatten([l \in 1..Len(atoms) |-> AtomRefs(atoms[l], l - 1)]),
         gens |-> Generators(clause),
         base |-> Len(atoms)]

IsBound(idx, v) == \E i \in 1..Len(idx.refs) : idx.refs[i].var = v

FirstRef(idx, v) ==
    LET i == CHOOSE k \in 1..Len(idx.refs) :
                 idx.refs[k].var = v /\ \A j \in 1..(k - 1) : idx.refs[j].var # v
    IN  idx.refs[i]

GeneratorLevel(idx, g) ==
    LET i == CHOOSE k \in 1..Len(idx.gens) :
                 idx.gens[k] = g /\ \A j \in 1..(k - 1) : idx.gens[j] # g
    IN  idx.base + i - 1

\* ValueTranslator::translate: a constant becomes a constant node, a variable the
\* tuple element of its first binding, an aggregate the element of its generator level
Lower(idx, arg) ==
    CASE arg.kind = "num" -> SignedConstant(arg.id)
      [] arg.kind = "var" ->
            IF idx.state = "live" /\ IsBound(idx, arg.id)
            THEN TupleElement(FirstRef(idx, arg.id).level, FirstRef(idx, arg.id).col)
            ELSE Unbound
      [] arg.kind = "agg" ->
            IF idx.state = "live" /\ \E k \in 1..Len(idx.gens) : idx.gens[k] = arg.id
            THEN TupleElement(GeneratorLevel(idx, arg.id), 0)
            ELSE Unbound
      [] OTHER -> Unbound

LowerAll(idx, args) == SeqMap(LAMBDA x : Lower(idx, x), args)

(***************************************************************************)
(* ProvenanceClauseTranslator::createValueSubroutine                       *)
(***************************************************************************)
\* the arguments one body literal contributes to the subroutine
LiteralArguments(l) ==
    CASE l.lit = "atom" -> l.atom.args
      [] l.lit = "neg" -> l.atom.args
      [] l.lit = "bin" -> <<l.lhs, l.rhs>>
      [] OTHER -> <<>>

\* i < size - auxiliaryArity over size_t: when auxiliaryArity > size the difference
\* wraps around to 2^w - (auxiliaryArity - size), which exceeds every index a
\* vector can have, so the comparison is true for every i the loop reaches
IndexBelowDifference(i, size, auxiliaryArity) ==
    IF auxiliaryArity <= size THEN i < size - auxiliaryArity ELSE TRUE

\* the loop over the head's arguments: args.at(i) throws once i reaches the size
RECURSIVE HeadLoop(_, _, _, _)
HeadLoop(args, auxiliaryArity, i, acc) ==
    IF ~IndexBelowDifference(i, Len(args), auxiliaryArity)
    THEN [thrown |-> FALSE, lowered |-> acc]
    ELSE IF i >= Len(args)
         THEN [thrown |-> TRUE, lowered |-> acc]
         ELSE HeadLoop(args, auxiliaryArity, i + 1, Append(acc, args[i + 1]))

\* variant: the arguments of negated atoms are left out
createValueSubroutine_noNegations(idx, ctx, rec, clause) ==
    LET bodyArgs == Flatten(SeqMap(LAMBDA l : IF l.lit = "neg" THEN <<>> ELSE LiteralArguments(l),
                                   clause.body))
        auxiliaryArity == getEvaluationArity(ctx, clause.head)
        loop == HeadLoop(clause.head.args, auxiliaryArity, 0, <<>>)
        sentinels == [i \in 1..auxiliaryArity |-> SignedConstant(-1)]
    IN  IF ~rec
        THEN Outcome("ok", SubroutineReturn(LowerAll(idx, bodyArgs)), bodyArgs)
        ELSE IF loop.thrown
             THEN Outcome("out_of_range", <<>>, bodyArgs \o loop.lowered)
             ELSE Outcome("ok",
                          SubroutineReturn(LowerAll(idx, bodyArgs \o loop.lowered) \o sentinels),
                          bodyArgs \o loop.lowered)

\* variant: the base translator's innermost node, an insertion of the lowered head
createValueSubroutine_headInsertion(idx, ctx, rec, clause) ==
    Outcome("ok", Insert(getConcreteRelationName(clause.head.name),
                         LowerAll(idx, clause.head.args)),
            clause.head.args)

createValueSubroutine(idx, ctx, rec, clause) ==
    LET bodyArgs == Flatten(SeqMap(LiteralArguments, clause.body))
        auxiliaryArity == getEvaluationArity(ctx, clause.head)
        loop == HeadLoop(clause.head.args, auxiliaryArity, 0, <<>>)
        sentinels == [i \in 1..auxiliaryArity |-> SignedConstant(-1)]
    IN  IF ~rec
        THEN Outcome("ok", SubroutineReturn(LowerAll(idx, bodyArgs)), bodyArgs)
        ELSE IF loop.thrown
             THEN Outcome("out_of_range", <<>>, bodyArgs \o loop.lowered)
             ELSE Outcome("ok",
                          SubroutineReturn(LowerAll(idx, bodyArgs \o loop.lowered) \o sentinels),
                          bodyArgs \o loop.lowered)

(***************************************************************************)
(* addNegate: the base translator's and the provenance translator's        *)
(***************************************************************************)
\* ClauseTranslator::addNegate: asserts that the auxiliary arity does not exceed the
\* atom's arity, then builds a plain existence-negation filter over the atom's
\* relation (the delta relation on the delta path) with the lowered non-auxiliary
\* arguments
ClauseTranslator_addNegate(idx, ctx, atom, op, isDelta) ==
    LET auxiliaryArity == getEvaluationArity(ctx, atom)
        arity == getArity(atom) - auxiliaryArity
        front == [i \in 1..arity |-> atom.args[i]]
    IN  IF ~(auxiliaryArity <= getArity(atom))
        THEN Outcome("assert", <<>>, <<>>)
        ELSE Outcome("ok",
                     Filter("Negation(ExistenceCheck)",
                            IF isDelta THEN getDeltaRelationName(atom.name)
                                       ELSE getConcreteRelationName(atom.name),
                            LowerAll(idx, front), op),
                     front)

\* the provenance existence check with the height loop running over the given
\* heights and reading args[arity + height + shift]
NegateWithHeights(idx, ctx, prov, atom, op, firstHeight, shift) ==
    LET auxiliaryArity == getEvaluationArity(ctx, atom)
        arity == getArity(atom) - auxiliaryArity
        args == atom.args
        front == [i \in 1..arity |-> args[i]]
        hs == [k \in 1..(auxiliaryArity - firstHeight) |-> firstHeight + k - 1]
        heights == IF prov THEN [k \in 1..Len(hs) |-> args[arity + hs[k] + shift + 1]] ELSE <<>>
        values == LowerAll(idx, front)
                  \o (IF prov THEN <<UndefValue>> ELSE <<>>)
                  \o LowerAll(idx, heights)
    IN  IF ~(auxiliaryArity <= getArity(atom))
        THEN Outcome("assert", <<>>, <<>>)
        ELSE Outcome("ok",
                     Filter("Negation(ProvenanceExistenceCheck)",
                            getConcreteRelationName(atom.name), values, op),
                     front \o heights)

\* variant: the height loop starts at 0
addNegate_heightFromZero(idx, ctx, prov, atom, op, isDelta) ==
    IF isDelta
    THEN ClauseTranslator_addNegate(idx, ctx, atom, op, isDelta)
    ELSE NegateWithHeights(idx, ctx, prov, atom, op, 0, 0)

\* variant: the height loop reads args[arity + height - 1]
addNegate_heightOffByOne(idx, ctx, prov, atom, op, isDelta) ==
    IF isDelta
    THEN ClauseTranslator_addNegate(idx, ctx, atom, op, isDelta)
    ELSE NegateWithHeights(idx, ctx, prov, atom, op, 1, -1)

\* variant: the delta path is not handed to the base translator
addNegate_ignoreDelta(idx, ctx, prov, atom, op, isDelta) ==
    NegateWithHeights(idx, ctx, prov, atom, op, 1, 0)

addNegate(idx, ctx, prov, atom, op, isDelta) ==
    IF isDelta
    THEN ClauseTranslator_addNegate(idx, ctx, atom, op, isDelta)
    ELSE LET auxiliaryArity == getEvaluationArity(ctx, atom)
             arity == getArity(atom) - auxiliaryArity
             args == atom.args
             front == [i \in 1..arity |-> args[i]]
             heights == IF prov
                        THEN [height \in 1..(auxiliaryArity - 1) |-> args[arity + height + 1]]
                        ELSE <<>>
             values == LowerAll(idx, front)
                       \o (IF prov THEN <<UndefValue>> ELSE <<>>)
                       \o LowerAll(idx, heights)
         IN  IF ~(auxiliaryArity <= getArity(atom))
             THEN Outcome("assert", <<>>, <<>>)
             ELSE Outcome("ok",
                          Filter("Negation(ProvenanceExistenceCheck)",
                                 getConcreteRelationName(atom.name), values, op),
                          front \o heights)

(***************************************************************************)
(* The composition stages inherited from the base translator.              *)
(***************************************************************************)
Reverse(s) == [i \in 1..Len(s) |-> s[Len(s) + 1 - i]]

\* addVariableBindingConstraints: one equality filter per reference of a variable
\* other than its first
addVariableBindingConstraints(idx, op) ==
    LET later == SelectSeq(idx.refs, LAMBDA r : FirstRef(idx, r.var) # r)
        eq(r) == Node("Filter", "Constraint(=)", "", -1,
                      <<TupleElement(FirstRef(idx, r.var).level, FirstRef(idx, r.var).col),
                        TupleElement(r.level, r.col)>>)
    IN  Reverse(SeqMap(eq, later)) \o op

\* the negation filters of addBodyLiteralConstraints, through the virtual addNegate
RECURSIVE AddNegations(_, _, _, _, _)
AddNegations(idx, ctx, prov, atoms, acc) ==
    IF atoms = <<>> \/ acc.status # "ok"
    THEN acc
    ELSE LET r == addNegate(idx, ctx, prov, Head(atoms), acc.op, FALSE)
         IN  AddNegations(idx, ctx, prov, Tail(atoms),
                          Outcome(r.status, r.op, acc.lowered \o r.lowered))

\* addBodyLiteralConstraints: one filter per binary constraint, then one negation
\* filter per negated atom
addBodyLiteralConstraints(idx, ctx, prov, clause, op) ==
    LET bins == BinaryConstraints(clause)
        con(l) == Node("Filter", "Constraint", "", -1, <<Lower(idx, l.lhs), Lower(idx, l.rhs)>>)
        filtered == Reverse(SeqMap(con, bins)) \o op
        binArgs == Flatten(SeqMap(LAMBDA l : <<l.lhs, l.rhs>>, bins))
    IN  AddNegations(idx, ctx, prov, NegatedAtoms(clause), Outcome("ok", filtered, binArgs))

\* addGeneratorLevels: one aggregate node per generator of the clause
addGeneratorLevels(idx, op, clause) ==
    Reverse([i \in 1..Len(idx.gens) |->
                Node("Aggregate", "", "", idx.base + i - 1, <<>>)]) \o op

\* addVariableIntroductions: one scan per positive atom, the first literal outermost;
\* on a recursive rule the atom selected by the version scans its delta relation
addVariableIntroductions(rec, clause, version, op) ==
    LET atoms == PositiveAtoms(clause)
        rel(i) == IF rec /\ i - 1 = version
                  THEN getDeltaRelationName(atoms[i].name)
                  ELSE getConcreteRelationName(atoms[i].name)
    IN  [i \in 1..Len(atoms) |-> Node("Scan", "", rel(i), i - 1, <<>>)] \o op

(***************************************************************************)
(* ProvenanceClauseTranslator::createRamFactQuery / createRamRuleQuery     *)
(***************************************************************************)
\* result of a query constructor: the statement, the translator's value index
\* after the call and the arguments lowered during it
Built(status, stmt, idx, lowered) ==
    [status |-> status, stmt |-> stmt, index |-> idx, lowered |-> lowered]

\* variant: the assertion on recursive mode is missing
createRamFactQuery_noRecursiveAssert(idx, ctx, rec, clause) ==
    IF ~isFact(clause)
    THEN Built("assert", NoStatement, idx, <<>>)
    ELSE LET sub == createValueSubroutine(idx, ctx, rec, clause)
         IN  IF sub.status # "ok"
             THEN Built(sub.status, NoStatement, idx, sub.lowered)
             ELSE Built("ok", Query(sub.op), idx, sub.lowered)

createRamFactQuery(idx, ctx, rec, clause) ==
    IF ~isFact(clause) \/ rec
    THEN Built("assert", NoStatement, idx, <<>>)
    ELSE LET sub == createValueSubroutine(idx, ctx, rec, clause)
         IN  IF sub.status # "ok"
             THEN Built(sub.status, NoStatement, idx, sub.lowered)
             ELSE Built("ok", Query(sub.op), idx, sub.lowered)

\* variant: the version is not passed on to the scans
createRamRuleQuery_versionZero(idx, ctx, prov, rec, clause, version) ==
    IF ~isRule(clause)
    THEN Built("assert", NoStatement, idx, <<>>)
    ELSE LET fresh == indexClause(clause, 0)
             sub == createValueSubroutine(fresh, ctx, rec, clause)
             op1 == addVariableBindingConstraints(fresh, sub.op)
             lit == addBodyLiteralConstraints(fresh, ctx, prov, clause, op1)
             op3 == addGeneratorLevels(fresh, lit.op, clause)
             op4 == addVariableIntroductions(rec, clause, 0, op3)
         IN  IF sub.status # "ok"
             THEN Built(sub.status, NoStatement, fresh, sub.lowered)
             ELSE IF lit.status # "ok"
                  THEN Built(lit.status, NoStatement, fresh, sub.lowered \o lit.lowered)
                  ELSE Built("ok", Query(op4), fresh, sub.lowered \o lit.lowered)

createRamRuleQuery(idx, ctx, prov, rec, clause, version) ==
    IF ~isRule(clause)
    THEN Built("assert", NoStatement, idx, <<>>)
    ELSE LET fresh == indexClause(clause, version)
             sub == createValueSubroutine(fresh, ctx, rec, clause)
             op1 == addVariableBindingConstraints(fresh, sub.op)
             lit == addBodyLiteralConstraints(fresh, ctx, prov, clause, op1)
             op3 == addGeneratorLevels(fresh, lit.op, clause)
             op4 == addVariableIntroductions(rec, clause, version, op3)
         IN  IF sub.status # "ok"
             THEN Built(sub.status, NoStatement, fresh, sub.lowered)
             ELSE IF lit.status # "ok"
                  THEN Built(lit.status, NoStatement, fresh, sub.lowered \o lit.lowered)
                  ELSE Built("ok", Query(op4), fresh, sub.lowered \o lit.lowered)

(***************************************************************************)
(* ast/UnionType.h: nodes on a heap.  A node owns the vector its types     *)
(* field names; vectors are kept apart from the nodes so that sharing one  *)
(* between two nodes is expressible.                                       *)
(***************************************************************************)
UnionNames == {"U", "V"}
TypeNames == {"A", "B"}

\* UnionType(name, types): a new node with a vector of its own
UnionType(objs, vecs, name, types) ==
    [objects |-> Append(objs, [name |-> name, vec |-> Len(vecs) + 1]),
     vectors |-> Append(vecs, types)]

getTypes(objs, vecs, o) == vecs[objs[o].vec]

\* add: types.push_back(type)
add(objs, vecs, o, type) ==
    [vecs EXCEPT ![objs[o].vec] = Append(@, type)]

\* setType: types.at(idx) = type; at() throws std::out_of_range when idx >= size()
setTypeThrows(objs, vecs, o, idx) == idx >= Len(getTypes(objs, vecs, o))

setType(objs, vecs, o, idx, type) ==
    IF setTypeThrows(objs, vecs, o, idx)
    THEN vecs
    ELSE [vecs EXCEPT ![objs[o].vec] = [@ EXCEPT ![idx + 1] = type]]

\* variant: the clone shares the original's vector
clone_sharedVector(objs, vecs, o) ==
    [objects |-> Append(objs, [name |-> objs[o].name, vec |-> objs[o].vec]),
     vectors |-> vecs]

\* clone: new UnionType(getQualifiedName(), types, getSrcLoc()), the vector copied
clone(objs, vecs, o) ==
    UnionType(objs, vecs, objs[o].name, getTypes(objs, vecs, o))

\* equal: same qualified name and equal type vectors
equal(objs, vecs, o, other) ==
    objs[o].name = objs[other].name /\ getTypes(objs, vecs, o) = getTypes(objs, vecs, other)

(***************************************************************************)
(* State.                                                                  *)
(***************************************************************************)
VARIABLES
    clause,          \* the clause handed to the translator
    version,         \* the version handed to createRamRuleQuery
    recursive,       \* isRecursive() of the translator
    provenance,      \* Global::config().has("provenance")
    evaluationArity, \* the context: auxiliary arity of each relation
    valueIndex,      \* the translator's valueIndex member
    pc,              \* position of the running call
    call,            \* the member function that was called
    op,              \* the operation built so far
    lowered,         \* arguments handed to ValueTranslator::translate so far
    result,          \* the call's outcome
    atom,            \* addNegate's atom
    isDelta,         \* addNegate's isDelta
    innerOp,         \* addNegate's op
    objects,         \* UnionType nodes
    vectors,         \* the type vectors the nodes own
    last             \* the last UnionType operation, with the vectors before it

translatorVars == <<clause, version, recursive, provenance, evaluationArity, valueIndex,
                    pc, call, op, lowered, result, atom, isDelta, innerOp>>
unionVars == <<objects, vectors, last>>
vars == <<translatorVars, unionVars>>

inputVars ==
    <<clause, version, recursive, provenance, evaluationArity, atom, isDelta, innerOp>>

NoResult == [status |-> "none", stmt |-> NoStatement]
Finished(status, stmt) == [status |-> status, stmt |-> stmt]
NoLast == [op |-> "none", obj |-> 0, made |-> 0, idx |-> 0, thrown |-> FALSE, pre |-> <<>>]

(***************************************************************************)
(* Inputs.                                                                 *)
(***************************************************************************)
\* the auxiliary-arity analysis gives every relation of a program the same arity
Contexts == {[nm \in Names |-> a] : a \in 0..MaxAux}

BodyAtoms == {Atom(nm, VarArgs(DeclaredArity[nm])) : nm \in Names}

Literals ==
    {PosLit(a) : a \in BodyAtoms} \cup {NegLit(a) : a \in BodyAtoms}
        \cup {BinLit(Var(1), Num(1)), BinLit(Var(1), Agg(1))}

Bodies == SeqsUpTo(Literals, MaxBody)

HeadOf(nm, body) ==
    IF body = <<>> THEN Atom(nm, NumArgs(DeclaredArity[nm])) ELSE Atom(nm, VarArgs(DeclaredArity[nm]))

\* every variable of the clause is bound by a positive body atom
Grounded(c) ==
    LET idx == indexClause(c, 0)
        used == c.head.args \o Flatten(SeqMap(LiteralArguments, c.body))
    IN  \A i \in 1..Len(used) : used[i].kind = "var" => IsBound(idx, used[i].id)

Clauses ==
    {c \in {[head |-> HeadOf(nm, body), body |-> body] : nm \in Names, body \in Bodies} :
        Grounded(c)}

NoClause == [head |-> NoAtom, body |-> <<>>]

\* the clause r(X1, ..., Xn) :- r(X1, ..., Xn).
ScanClause ==
    [head |-> Atom("r", VarArgs(MaxArity)), body |-> <<PosLit(Atom("r", VarArgs(MaxArity)))>>]

\* valueIndex before a call: unset on a new translator, or left by an earlier
\* createRamRuleQuery on the same translator
PriorIndexes == {NullIndex, indexClause(ScanClause, 0)}

\* the versions of a clause: one per positive body atom of a recursive rule
Versions(c, rec) ==
    IF rec /\ Len(PositiveAtoms(c)) > 0 THEN 0..(Len(PositiveAtoms(c)) - 1) ELSE {0}

UnionIdle ==
    /\ objects = <<>>
    /\ vectors = <<>>
    /\ last = NoLast

(***************************************************************************)
(* Translating one clause.                                                 *)
(***************************************************************************)
Init ==
    /\ clause \in Clauses
    /\ recursive \in BOOLEAN
    /\ version \in Versions(clause, recursive)
    /\ provenance \in BOOLEAN
    /\ evaluationArity \in Contexts
    /\ valueIndex \in PriorIndexes
    /\ pc = "ready"
    /\ call = "none"
    /\ op = <<>>
    /\ lowered = <<>>
    /\ result = NoResult
    /\ atom = NoAtom
    /\ isDelta = FALSE
    /\ innerOp = <<>>
    /\ UnionIdle

\* createRamFactQuery(clause), the whole call
CreateRamFactQuery ==
    /\ pc = "ready"
    /\ LET r == createRamFactQuery(valueIndex, evaluationArity, recursive, clause)
       IN  /\ pc' = IF r.status = "ok" THEN "done" ELSE "aborted"
           /\ call' = "createRamFactQuery"
           /\ valueIndex' = r.index
           /\ op' = r.stmt.op
           /\ lowered' = r.lowered
           /\ result' = Finished(r.status, r.stmt)
    /\ UNCHANGED <<inputVars, unionVars>>

\* createRamRuleQuery(clause, version), statement by statement
RuleIndex ==
    /\ pc = "ready"
    /\ call' = "createRamRuleQuery"
    /\ IF isRule(clause)
       THEN /\ valueIndex' = indexClause(clause, version)
            /\ pc' = "indexed"
            /\ result' = result
       ELSE /\ valueIndex' = valueIndex
            /\ pc' = "aborted"
            /\ result' = Finished("assert", NoStatement)
    /\ UNCHANGED <<op, lowered, inputVars, unionVars>>

Advance(from, to, r) ==
    /\ pc = from
    /\ lowered' = lowered \o r.lowered
    /\ IF r.status = "ok"
       THEN /\ op' = r.op
            /\ pc' = to
            /\ result' = result
       ELSE /\ op' = <<>>
            /\ pc' = "aborted"
            /\ result' = Finished(r.status, NoStatement)
    /\ UNCHANGED <<valueIndex, call, inputVars, unionVars>>

RuleValueSubroutine ==
    Advance("indexed", "returned",
            createValueSubroutine(valueIndex, evaluationArity, recursive, clause))

RuleBindingConstraints ==
    Advance("returned", "bound",
            Outcome("ok", addVariableBindingConstraints(valueIndex, op), <<>>))

RuleLiteralConstraints ==
    Advance("bound", "filtered",
            addBodyLiteralConstraints(valueIndex, evaluationArity, provenance, clause, op))

RuleGeneratorLevels ==
    Advance("filtered", "generated",
            Outcome("ok", addGeneratorLevels(valueIndex, op, clause), <<>>))

RuleVariableIntroductions ==
    /\ pc = "generated"
    /\ op' = addVariableIntroductions(recursive, clause, version, op)
    /\ result' = Finished("ok", Query(op'))
    /\ pc' = "done"
    /\ UNCHANGED <<valueIndex, call, lowered, inputVars, unionVars>>

Next ==
    \/ CreateRamFactQuery
    \/ RuleIndex
    \/ RuleValueSubroutine
    \/ RuleBindingConstraints
    \/ RuleLiteralConstraints
    \/ RuleGeneratorLevels
    \/ RuleVariableIntroductions

Spec == Init /\ [][Next]_vars

(***************************************************************************)
(* addNegate called on its own: the atom is drawn from the atoms over the  *)
(* variables a scan of r binds, the inner operation from two return nodes. *)
(***************************************************************************)
NegateArgs == {Num(1)} \cup {Var(i) : i \in 1..MaxArity}

NegateAtoms == UNION {{Atom(nm, as) : as \in [1..DeclaredArity[nm] -> NegateArgs]} : nm \in Names}

InnerOps == {SubroutineReturn(<<>>), SubroutineReturn(<<SignedConstant(1)>>)}

InitNegate ==
    /\ clause = ScanClause
    /\ recursive = FALSE
    /\ version = 0
    /\ provenance \in BOOLEAN
    /\ evaluationArity \in Contexts
    /\ valueIndex = indexClause(ScanClause, 0)
    /\ pc = "ready"
    /\ call = "none"
    /\ op = <<>>
    /\ lowered = <<>>
    /\ result = NoResult
    /\ atom \in NegateAtoms
    /\ isDelta \in BOOLEAN
    /\ innerOp \in InnerOps
    /\ UnionIdle

AddNegate ==
    /\ pc = "ready"
    /\ LET r == addNegate(valueIndex, evaluationArity, provenance, atom, innerOp, isDelta)
       IN  /\ pc' = IF r.status = "ok" THEN "done" ELSE "aborted"
           /\ call' = "addNegate"
           /\ op' = r.op
           /\ lowered' = r.lowered
           /\ result' = Finished(r.status, NoStatement)
    /\ UNCHANGED <<valueIndex, inputVars, unionVars>>

NextNegate == AddNegate

SpecNegate == InitNegate /\ [][NextNegate]_vars

(***************************************************************************)
(* Union type nodes: construction, add, setType, clone.                    *)
(***************************************************************************)
TranslatorIdle ==
    /\ clause = NoClause
    /\ recursive = FALSE
    /\ version = 0
    /\ provenance = FALSE
    /\ evaluationArity = [nm \in Names |-> 0]
    /\ valueIndex = NullIndex
    /\ pc = "ready"
    /\ call = "none"
    /\ op = <<>>
    /\ lowered = <<>>
    /\ result = NoResult
    /\ atom = NoAtom
    /\ isDelta = FALSE
    /\ innerOp = <<>>

InitUnion ==
    /\ TranslatorIdle
    /\ \E name \in UnionNames, types \in SeqsUpTo(TypeNames, MaxTypes) :
           LET heap == UnionType(<<>>, <<>>, name, types)
           IN  /\ objects = heap.objects
               /\ vectors = heap.vectors
    /\ last = NoLast

Objects == 1..Len(objects)

UnionAdd ==
    \E o \in Objects, type \in TypeNames :
        /\ Len(getTypes(objects, vectors, o)) < MaxTypes
        /\ vectors' = add(objects, vectors, o, type)
        /\ objects' = objects
        /\ last' = [op |-> "add", obj |-> o, made |-> 0, idx |-> 0, thrown |-> FALSE,
                    pre |-> vectors]
        /\ UNCHANGED translatorVars

UnionSetType ==
    \E o \in Objects, idx \in 0..MaxTypes, type \in TypeNames :
        /\ vectors' = setType(objects, vectors, o, idx, type)
        /\ objects' = objects
        /\ last' = [op |-> "setType", obj |-> o, made |-> 0, idx |-> idx,
                    thrown |-> setTypeThrows(objects, vectors, o, idx), pre |-> vectors]
        /\ UNCHANGED translatorVars

UnionClone ==
    \E o \in Objects :
        /\ Len(objects) < MaxObjects
        /\ LET heap == clone(objects, vectors, o)
           IN  /\ objects' = heap.objects
               /\ vectors' = heap.vectors
        /\ last' = [op |-> "clone", obj |-> o, made |-> Len(objects) + 1, idx |-> 0,
                    thrown |-> FALSE, pre |-> vectors]
        /\ UNCHANGED translatorVars

NextUnion ==
    \/ UnionAdd
    \/ UnionSetType
    \/ UnionClone

SpecUnion == InitUnion /\ [][NextUnion]_vars

(***************************************************************************)
(* Vocabulary of the properties.                                           *)
(***************************************************************************)
HeadArity == Len(clause.head.args)
HeadAux == evaluationArity[clause.head.name]
AtomArity == Len(atom.args)
AtomAux == evaluationArity[atom.name]

\* number of values a body literal stands for: an atom's arity, two for a constraint
Width(l) == IF l.lit = "bin" THEN 2 ELSE Len(l.atom.args)

RECURSIVE WidthBefore(_, _)
WidthBefore(body, i) == IF i <= 1 THEN 0 ELSE WidthBefore(body, i - 1) + Width(body[i - 1])

BodyWidth == WidthBefore(clause.body, Len(clause.body) + 1)

Count(sq, P(_)) == Len(SelectSeq(sq, P))

RECURSIVE SumArity(_)
SumArity(atoms) == IF atoms = <<>> THEN 0 ELSE Len(Head(atoms).args) + SumArity(Tail(atoms))

Leaf(tree) == tree[Len(tree)]

FactCallDone == call = "createRamFactQuery" /\ pc = "done"
RuleCallDone == call = "createRamRuleQuery" /\ pc = "done"
NegateCalled == call = "addNegate"

\* the value subroutine of the running call has just been built
SubroutineBuilt == FactCallDone \/ (call = "createRamRuleQuery" /\ pc = "returned")

(***************************************************************************)
(* C1: every fact translated by createRamFactQuery yields a query whose    *)
(* operation is a return node carrying the lowered head arguments in head  *)
(* order (as many values as the head has arguments), never an insertion.   *)
(* The code returns an empty value list for every fact.                    *)
(***************************************************************************)
C1_FactReturnsHeadValues ==
    FactCallDone =>
        /\ result.stmt.stmt = "Query"
        /\ Len(result.stmt.op) = 1
        /\ Leaf(result.stmt.op).node = "SubroutineReturn"
        /\ Leaf(result.stmt.op).values = LowerAll(valueIndex, clause.head.args)
        /\ Len(Leaf(result.stmt.op).values) = HeadArity

(***************************************************************************)
(* C3: createValueSubroutine returns one return node whose values are, in  *)
(* body order, the lowered arguments of every positive and negated atom    *)
(* and both operands of every binary constraint, followed on a recursive   *)
(* clause by the head's first arity - auxiliary arity arguments and one -1 *)
(* per auxiliary column, and by nothing otherwise.                         *)
(***************************************************************************)
C3_ValueSubroutineLayout ==
    SubroutineBuilt =>
        LET vals == Leaf(op).values
            body == clause.body
            n == HeadArity
            a == HeadAux
        IN  /\ Len(op) = 1
            /\ Leaf(op).node = "SubroutineReturn"
            /\ BodyWidth = SumArity(PositiveAtoms(clause)) + SumArity(NegatedAtoms(clause))
                               + 2 * Count(body, IsBinary)
            /\ recursive => a <= n
            /\ Len(vals) = BodyWidth + (IF recursive THEN n ELSE 0)
            /\ \A i \in 1..Len(body) :
                   LET off == WidthBefore(body, i)
                   IN  IF body[i].lit = "bin"
                       THEN /\ vals[off + 1] = Lower(valueIndex, body[i].lhs)
                            /\ vals[off + 2] = Lower(valueIndex, body[i].rhs)
                       ELSE \A j \in 1..Len(body[i].atom.args) :
                                vals[off + j] = Lower(valueIndex, body[i].atom.args[j])
            /\ recursive =>
                   /\ \A j \in 1..(n - a) :
                          vals[BodyWidth + j] = Lower(valueIndex, clause.head.args[j])
                   /\ \A j \in (n - a + 1)..n : vals[BodyWidth + j] = SignedConstant(-1)

C3_Witness ==
    /\ call = "createRamRuleQuery"
    /\ pc = "returned"
    /\ recursive
    /\ HeadAux >= 1
    /\ HeadArity > HeadAux
    /\ Count(clause.body, IsNegation) >= 1
    /\ Count(clause.body, IsPositive) >= 1

(***************************************************************************)
(* C4: createRamRuleQuery creates and fills the value index before any     *)
(* value is lowered and composes the tree bottom-up: the value-return      *)
(* subroutine innermost, then the variable-binding equalities, then the    *)
(* constraint and negation filters, then the generator levels, then the    *)
(* scans outermost; the innermost node is a return node, never a head      *)
(* insertion.                                                              *)
(***************************************************************************)
Rank(nd) ==
    CASE nd.node = "Scan" -> 0
      [] nd.node = "Aggregate" -> 1
      [] nd.node = "Filter" /\ nd.cond # "Constraint(=)" -> 2
      [] nd.node = "Filter" /\ nd.cond = "Constraint(=)" -> 3
      [] nd.node = "SubroutineReturn" -> 4
      [] OTHER -> 5

\* the lowest rank a node of the tree may have at each position of the call
StageRank ==
    [returned |-> 4, bound |-> 3, filtered |-> 2, generated |-> 1, done |-> 0]

C4_BottomUpComposition ==
    call = "createRamRuleQuery" =>
        /\ pc = "indexed" => (lowered = <<>> /\ op = <<>>)
        /\ valueIndex # indexClause(clause, version) => (lowered = <<>> /\ op = <<>>)
        /\ pc \in {"indexed", "returned", "bound", "filtered", "generated", "done"}
               => valueIndex = indexClause(clause, version)
        /\ pc \in DOMAIN StageRank =>
               /\ Leaf(op).node = "SubroutineReturn"
               /\ \A i \in 1..(Len(op) - 1) :
                      /\ Rank(op[i]) <= Rank(op[i + 1])
                      /\ Rank(op[i]) >= StageRank[pc]
                      /\ Rank(op[i]) < 4
               /\ Count(op, LAMBDA nd : nd.node = "Scan") =
                      (IF pc = "done" THEN Count(clause.body, IsPositive) ELSE 0)
        /\ pc \in {"filtered", "generated", "done"} =>
               /\ Count(op, LAMBDA nd : Rank(nd) = 2) =
                      Count(clause.body, IsBinary) + Count(clause.body, IsNegation)
        /\ pc \in {"generated", "done"} =>
               Count(op, LAMBDA nd : nd.node = "Aggregate") = Len(Generators(clause))
        /\ pc = "done" => result.stmt = Query(op)

C4_Witness ==
    /\ RuleCallDone
    /\ Len(op) = 4
    /\ op[1].node = "Scan"
    /\ op[2].node = "Aggregate"
    /\ op[3].node = "Filter"
    /\ op[4].node = "SubroutineReturn"
    /\ op[4].values # <<>>

(***************************************************************************)
(* C6: a recursive rule with k positive body atoms translates, for the     *)
(* versions 0..k-1, to k pairwise distinct trees; each scans the delta     *)
(* relation for exactly the positive atom its version selects and the full *)
(* relation for every other positive atom.                                 *)
(***************************************************************************)
Scans(tree) == SelectSeq(tree, LAMBDA nd : nd.node = "Scan")

DeltaScans(tree) ==
    {i \in 1..Len(Scans(tree)) :
        Scans(tree)[i].rel = getDeltaRelationName(PositiveAtoms(clause)[i].name)}

FullScans(tree) ==
    {i \in 1..Len(Scans(tree)) :
        Scans(tree)[i].rel = getConcreteRelationName(PositiveAtoms(clause)[i].name)}

TreeOfVersion(v) ==
    createRamRuleQuery(NullIndex, evaluationArity, provenance, recursive, clause, v)

C6_OneDeltaScanPerVersion ==
    (RuleCallDone /\ recursive) =>
        LET k == Len(PositiveAtoms(clause))
        IN  /\ result.stmt = TreeOfVersion(version).stmt
            /\ \A v \in 0..(k - 1) :
                   LET tree == TreeOfVersion(v).stmt.op
                   IN  /\ TreeOfVersion(v).status = "ok"
                       /\ Len(Scans(tree)) = k
                       /\ DeltaScans(tree) = {v + 1}
                       /\ FullScans(tree) = (1..k) \ {v + 1}
            /\ \A v, w \in 0..(k - 1) :
                   v # w => TreeOfVersion(v).stmt # TreeOfVersion(w).stmt

C6_Witness ==
    /\ RuleCallDone
    /\ recursive
    /\ Len(PositiveAtoms(clause)) = 2
    /\ version = 1
    /\ PositiveAtoms(clause)[1] = PositiveAtoms(clause)[2]

(***************************************************************************)
(* C7: createRamFactQuery on a clause that is not a fact or in recursive   *)
(* mode, and createRamRuleQuery on a clause that is not a rule, abort at   *)
(* an assertion: no statement, no node, no lowered value, and the value    *)
(* index neither created nor replaced.                                     *)
(***************************************************************************)
RoutingViolation ==
    \/ call = "createRamFactQuery" /\ (~isFact(clause) \/ recursive)
    \/ call = "createRamRuleQuery" /\ ~isRule(clause)

C7_RoutingViolationsAbort ==
    [][(call = "none" /\ RoutingViolation') =>
           /\ pc' = "aborted"
           /\ result' = Finished("assert", NoStatement)
           /\ valueIndex' = valueIndex
           /\ op' = <<>>
           /\ lowered' = <<>>]_vars

C7_Witness ==
    /\ call = "createRamFactQuery"
    /\ isFact(clause)
    /\ recursive
    /\ HeadArity >= 1
    /\ valueIndex.state = "live"
    /\ pc = "aborted"

(***************************************************************************)
(* C8: an auxiliary arity above the atom's arity is an asserted, fatal     *)
(* violation wherever the difference arity - auxiliary arity is taken: the *)
(* call aborts at the assertion before any argument is lowered.  Stated    *)
(* for createValueSubroutine on the head of a recursive rule, where it is  *)
(* the first stage to lower anything.                                      *)
(***************************************************************************)
C8_AuxiliaryArityAsserted ==
    (call = "createRamRuleQuery" /\ isRule(clause) /\ recursive /\ HeadAux > HeadArity
        /\ pc # "indexed") =>
        /\ pc = "aborted"
        /\ result.status = "assert"
        /\ lowered = <<>>

(***************************************************************************)
(* Properties of addNegate called on its own (SpecNegate).                 *)
(***************************************************************************)
CheckValues == op[1].values

\* the atom's arguments at the positions other than p (counted from 0)
ArgsExcept(p) ==
    LET keep == SelectSeq([i \in 1..AtomArity |-> i], LAMBDA i : i # p + 1)
    IN  [j \in 1..Len(keep) |-> atom.args[keep[j]]]

(***************************************************************************)
(* C2, as claimed: with isDelta = false and 0 <= a <= n the existence      *)
(* check carries n - a values with the provenance flag off and n values    *)
(* with the flag on.                                                       *)
(***************************************************************************)
C2_NegationValueCount ==
    (NegateCalled /\ ~isDelta /\ AtomAux <= AtomArity) =>
        /\ pc = "done"
        /\ Len(CheckValues) = (IF provenance THEN AtomArity ELSE AtomArity - AtomAux)

(***************************************************************************)
(* C2, amended: with isDelta = false and 0 <= a <= n the existence check   *)
(* carries n - a lowered arguments with the flag off; with the flag on it  *)
(* carries the n - a lowered arguments, one don't-care and the lowered     *)
(* height arguments at positions n - a + 1 .. n - 1, which is n values     *)
(* when a >= 1 and n + 1 values when a = 0.                                *)
(***************************************************************************)
C2_NegationValueCountAmended ==
    (NegateCalled /\ ~isDelta /\ AtomAux <= AtomArity) =>
        LET n == AtomArity
            a == AtomAux
            undefs == Count(CheckValues, LAMBDA x : x = UndefValue)
        IN  /\ pc = "done"
            /\ op[1].cond = "Negation(ProvenanceExistenceCheck)"
            /\ IF provenance
               THEN /\ Len(CheckValues) = (IF a >= 1 THEN n ELSE n + 1)
                    /\ undefs = 1
                    /\ Len(lowered) = (IF a >= 1 THEN (n - a) + (a - 1) ELSE n)
               ELSE /\ Len(CheckValues) = n - a
                    /\ undefs = 0
                    /\ Len(lowered) = n - a

C2_Witness ==
    /\ NegateCalled
    /\ pc = "done"
    /\ ~isDelta
    /\ provenance
    /\ AtomAux = 0
    /\ AtomArity >= 1
    /\ Len(CheckValues) = AtomArity + 1

C9_CheckAlignedWithAtom ==
    (NegateCalled /\ ~isDelta /\ provenance /\ AtomAux >= 1 /\ AtomAux <= AtomArity) =>
        LET n == AtomArity
            a == AtomAux
        IN  /\ pc = "done"
            /\ op[1].node = "Filter"
            /\ op[1].cond = "Negation(ProvenanceExistenceCheck)"
            /\ op[1].rel = atom.name
            /\ Tail(op) = innerOp
            /\ Len(CheckValues) = n
            /\ CheckValues[n - a + 1] = UndefValue
            /\ \A i \in 1..n :
                   i # n - a + 1 => CheckValues[i] = Lower(valueIndex, atom.args[i])
            /\ lowered = ArgsExcept(n - a)

C9_Witness ==
    /\ NegateCalled
    /\ pc = "done"
    /\ ~isDelta
    /\ provenance
    /\ AtomArity = 3
    /\ AtomAux = 2
    /\ atom.args[1] # atom.args[2]
    /\ atom.args[2] # atom.args[3]
    /\ innerOp # SubroutineReturn(<<>>)

(***************************************************************************)
(* C10: clone() yields a node equal() to the original; a later add or      *)
(* setType on either leaves the other's types unchanged; setType with an   *)
(* index at or past the member count raises an error and changes nothing.  *)
(***************************************************************************)
PreTypes(o) == last.pre[objects[o].vec]

C10_CloneEqualAndIndependent ==
    /\ last.op = "clone" =>
           /\ Len(objects) = last.made
           /\ equal(objects, vectors, last.made, last.obj)
           /\ equal(objects, vectors, last.obj, last.made)
           /\ objects[last.made].name = objects[last.obj].name
           /\ getTypes(objects, vectors, last.made) = PreTypes(last.obj)
           /\ \A o \in 1..(Len(objects) - 1) : getTypes(objects, vectors, o) = PreTypes(o)
    /\ last.op \in {"add", "setType"} =>
           \A o \in Objects : o # last.obj => getTypes(objects, vectors, o) = PreTypes(o)
    /\ last.op = "setType" =>
           /\ last.thrown <=> last.idx >= Len(PreTypes(last.obj))
           /\ last.thrown => vectors = last.pre

C10_Witness ==
    /\ Len(objects) = 2
    /\ last.op = "setType"
    /\ ~last.thrown
    /\ last.obj = 2
    /\ ~equal(objects, vectors, 1, 2)
    /\ Len(getTypes(objects, vectors, 1)) = 2
    /\ getTypes(objects, vectors, 1) = PreTypes(1)

====
